---- MODULE Spec2Model ----
(***************************************************************************)
(* AstralStream upgrade tooling: the expert agent team                     *)
(* (astralstream-agent-team.py: five agents with analyze / fix / validate, *)
(* driven by MasterOrchestrator.run_full_upgrade) and the elite upgrade    *)
(* agent (astralstream-elite-agent.py: main, --dry-run, run_full_upgrade). *)
(*                                                                         *)
(* The project tree is a function from a finite universe of paths to what  *)
(* is stored there.  The text of a file is abstracted to the set of tokens *)
(* the detectors of the agents look for ("http", "GlobalScope", ...).      *)
(***************************************************************************)
EXTENDS Integers, Sequences, FiniteSets, TLC

(***************************************************************************)
(* Bounds of the model.                                                    *)
(***************************************************************************)
\* user Kotlin sources that the initial project tree may hold
MaxUserFiles == 1
\* paths of the tree on which a write (or mkdir) fails with an OSError
MaxFaults == 1
\* largest step of the wall clock between two calls of datetime.now()
MaxTick == 1
\* calls made on one agent when the agent is driven directly (SpecAgent)
MaxCalls == 3

(***************************************************************************)
(* The universe of paths, relative to the project root.                    *)
(***************************************************************************)
JavaRoot == "app/src/main/java/com/astralplayer"

TestRoot == "app/src/test"

AndroidTestRoot == "app/src/androidTest"

\* a Kotlin file, given its directory and its stem (Path.stem)
KtFile(dir, stem) == dir \o "/" \o stem \o ".kt"

\* TestCoverageAgent._get_test_file_path:
\*   project_path / "app/src/test" / relative_path.parent / f"{stem}Test.kt"
GetTestFilePath(dir, stem) == TestRoot \o "/" \o dir \o "/" \o stem \o "Test.kt"

\* The Kotlin sources (not under /test/ or /androidTest/) of the universe:
\* directory, stem, and the rglob name patterns ("*Navigation*.kt", ...) the
\* file name matches.
UserStems == <<"PlayerA", "PlayerB", "PlayerC", "PlayerD">>

UserSources ==
  { [dir |-> JavaRoot, stem |-> UserStems[i], tags |-> {}] : i \in 1..Len(UserStems) }

\* files written by the agents of the expert team
TeamSources ==
  { [dir |-> JavaRoot \o "/data/database", stem |-> "AstralStreamDatabase",
     tags |-> {"AstralStreamDatabase"}],
    [dir |-> JavaRoot \o "/presentation/navigation", stem |-> "AstralStreamNavigation",
     tags |-> {"Navigation"}],
    [dir |-> JavaRoot \o "/domain/repository", stem |-> "VideoPlayerRepository", tags |-> {}],
    [dir |-> JavaRoot \o "/domain/repository", stem |-> "SubtitleRepository", tags |-> {}],
    [dir |-> JavaRoot \o "/domain/repository", stem |-> "CloudStorageRepository", tags |-> {}],
    [dir |-> JavaRoot \o "/domain/usecase", stem |-> "PlayVideoUseCase", tags |-> {}],
    [dir |-> JavaRoot \o "/domain/usecase", stem |-> "GenerateSubtitlesUseCase", tags |-> {}],
    [dir |-> JavaRoot \o "/network/security", stem |-> "SecureNetworkClient",
     tags |-> {"Network"}],
    [dir |-> JavaRoot \o "/security", stem |-> "BiometricAuthManager", tags |-> {}],
    [dir |-> JavaRoot \o "/security", stem |-> "AdvancedEncryptionManager", tags |-> {}],
    [dir |-> JavaRoot \o "/performance", stem |-> "LazyComponentLoader", tags |-> {}],
    [dir |-> JavaRoot \o "/performance", stem |-> "AdvancedPerformanceMonitor",
     tags |-> {"Performance"}] }

\* files a project may hold before the run (legacy databases, a second
\* navigation file, the files an earlier elite upgrade left behind)
LegacySources ==
  { [dir |-> JavaRoot \o "/presentation/navigation", stem |-> "NavigationGraph",
     tags |-> {"Navigation"}],
    [dir |-> JavaRoot \o "/data/database", stem |-> "AstralVuDatabase",
     tags |-> {"AstralVuDatabase"}],
    [dir |-> JavaRoot \o "/data/database", stem |-> "NextPlayerDatabase",
     tags |-> {"NextPlayerDatabase"}],
    [dir |-> JavaRoot \o "/security", stem |-> "SecurityManager", tags |-> {"Security"}],
    [dir |-> JavaRoot \o "/network", stem |-> "SecureNetworkClient", tags |-> {"Network"}],
    [dir |-> JavaRoot \o "/player/performance", stem |-> "PerformanceOptimizer",
     tags |-> {"Performance"}] }

\* the other Kotlin sources the elite agent writes
EliteSources ==
  { [dir |-> JavaRoot \o "/core/error", stem |-> "GlobalErrorHandler", tags |-> {}],
    [dir |-> JavaRoot \o "/domain/repository", stem |-> "VideoRepository", tags |-> {}],
    [dir |-> JavaRoot \o "/domain/repository", stem |-> "StreamExtractorRepository",
     tags |-> {}],
    [dir |-> JavaRoot \o "/domain/player", stem |-> "VideoPlayer", tags |-> {}],
    [dir |-> JavaRoot \o "/di", stem |-> "AppModule", tags |-> {}],
    [dir |-> JavaRoot \o "/cache", stem |-> "AdvancedCacheManager", tags |-> {}],
    [dir |-> JavaRoot \o "/memory", stem |-> "MemoryManager", tags |-> {}],
    [dir |-> JavaRoot \o "/offline", stem |-> "OfflinePlaybackManager", tags |-> {}],
    [dir |-> JavaRoot \o "/streaming", stem |-> "AdaptiveStreamingManager", tags |-> {}],
    [dir |-> JavaRoot \o "/gesture", stem |-> "EnhancedGestureController", tags |-> {}],
    [dir |-> JavaRoot \o "/analytics", stem |-> "AnalyticsManager", tags |-> {}],
    [dir |-> JavaRoot \o "/crash", stem |-> "CrashReporter", tags |-> {}] }

\* sources that TestCoverageAgent may meet, each with its test peer
PeeredSources == UserSources \cup TeamSources \cup LegacySources

SourceTable == PeeredSources \cup EliteSources

SourcePath(s) == KtFile(s.dir, s.stem)

SourceKt == { SourcePath(s) : s \in SourceTable }

PeerKt == { GetTestFilePath(s.dir, s.stem) : s \in PeeredSources }

\* test path of a source path (the "test_path" of a missing_test_file issue)
TestPathOf ==
  [ p \in { SourcePath(s) : s \in PeeredSources } |->
      LET s == CHOOSE t \in PeeredSources : SourcePath(t) = p
      IN  GetTestFilePath(s.dir, s.stem) ]

\* generated test files
IntegrationTest == AndroidTestRoot \o "/java/com/astralplayer/integration/VideoPlayerIntegrationTest.kt"

UiTest == AndroidTestRoot \o "/java/com/astralplayer/ui/VideoPlayerUITest.kt"

Benchmark == "benchmark/src/androidTest/java/com/astralplayer/benchmark/VideoPlayerBenchmark.kt"

EliteUiTest == AndroidTestRoot \o "/java/com/astralplayer/ui/test/VideoPlayerUITest.kt"

EliteTestClasses ==
  <<"VideoRepository", "SubtitleRepository", "StreamExtractor",
    "SecurityManager", "AdaptiveStreamingManager", "GestureController">>

EliteUnitTest(i) == KtFile(TestRoot \o "/java/com/astralplayer/test", EliteTestClasses[i] \o "Test")

GeneratedTests ==
  {IntegrationTest, UiTest, Benchmark, EliteUiTest}
    \cup { EliteUnitTest(i) : i \in 1..Len(EliteTestClasses) }

TestKt == PeerKt \cup GeneratedTests

\* tracked directories
AppDir == "app"

DocsDir == "docs"

DomainDir == JavaRoot \o "/domain"

DataDir == JavaRoot \o "/data"

PresentationDir == JavaRoot \o "/presentation"

Dirs == {AppDir, TestRoot, AndroidTestRoot, DocsDir, DomainDir, DataDir, PresentationDir}

\* other files
Readme == "README.md"

Contributing == "CONTRIBUTING.md"

ApiDoc == "docs/API.md"

ArchDoc == "docs/ARCHITECTURE.md"

SetupDoc == "docs/SETUP.md"

Proguard == "app/proguard-rules.pro"

BaselineProfile == "app/src/main/baseline-prof.txt"

TeamReportPath == "EXPERT_TEAM_REPORT.md"

EliteReportPath == "UPGRADE_REPORT.md"

OtherFiles ==
  {Readme, Contributing, ApiDoc, ArchDoc, SetupDoc, Proguard, BaselineProfile,
   TeamReportPath, EliteReportPath}

KotlinPaths == SourceKt \cup TestKt

\* the paths under the project root
ProjectPaths == Dirs \cup KotlinPaths \cup OtherFiles

\* a directory of the file system that is not under the project root
OutsideDir == "/tmp/outside"

\* the paths the model tracks
Paths == ProjectPaths \cup {OutsideDir}

\* the tracked directories above a path (what mkdir(parents=True) creates)
Ancestors ==
  [ p \in Paths |->
      (IF p \in (KotlinPaths \ {Benchmark}) \cup {Proguard, BaselineProfile, TestRoot,
                                                   AndroidTestRoot, DomainDir, DataDir,
                                                   PresentationDir}
         THEN {AppDir} ELSE {})
      \cup (IF p \in PeerKt \cup { EliteUnitTest(i) : i \in 1..Len(EliteTestClasses) }
              THEN {TestRoot} ELSE {})
      \cup (IF p \in {IntegrationTest, UiTest, EliteUiTest} THEN {AndroidTestRoot} ELSE {})
      \cup (IF p \in {ApiDoc, ArchDoc, SetupDoc} THEN {DocsDir} ELSE {})
      \cup (IF \E s \in SourceTable : /\ SourcePath(s) = p
                                      /\ s.dir \in { DomainDir \o x : x \in {"/repository", "/usecase", "/player"} }
              THEN {DomainDir} ELSE {})
      \cup (IF \E s \in SourceTable : SourcePath(s) = p /\ s.dir = DataDir \o "/database"
              THEN {DataDir} ELSE {})
      \cup (IF \E s \in SourceTable : SourcePath(s) = p /\ s.dir = PresentationDir \o "/navigation"
              THEN {PresentationDir} ELSE {}) ]

\* file-name patterns of the rglob calls
NameTags ==
  [ p \in KotlinPaths |->
      IF p \in SourceKt
        THEN (CHOOSE s \in SourceTable : SourcePath(s) = p).tags
        ELSE IF p \in PeerKt
          \* "<stem>Test.kt" matches every pattern its source's name matches
          THEN (CHOOSE s \in PeeredSources : GetTestFilePath(s.dir, s.stem) = p).tags
          ELSE IF p = EliteUnitTest(4) THEN {"Security"} ELSE {} ]

Named(tag) == { p \in KotlinPaths : tag \in NameTags[p] }

\* Some fixed order of a finite set: the unspecified but fixed order in which
\* rglob yields the files of a directory tree.
RECURSIVE SetToSeq(_)
SetToSeq(S) ==
  IF S = {} THEN <<>>
  ELSE LET x == CHOOSE y \in S : TRUE IN <<x>> \o SetToSeq(S \ {x})

KotlinOrder == SetToSeq(KotlinPaths)

(***************************************************************************)
(* The project tree.                                                       *)
(***************************************************************************)
\* tokens of a file's text that the code looks for
Tokens ==
  { "http",            \* "http://" in content and "localhost" not in content
    "companionContext",\* "companion object" in content and "Context" in content
    "lateinitContext", \* "private lateinit var context: Context"
    "GlobalScope",     \* "GlobalScope.launch"
    "nextplayer",      \* "com.astralplayer.nextplayer"
    "astralstream",    \* "com.astralplayer.astralstream"
    "adultContent",    \* a match of one of the patterns of _sanitize_adult_content_references
    "CertificatePinner",
    "Cipher",          \* "EncryptedSharedPreferences" or "Cipher"
    "long",            \* len(text) >= 100
    "documented",      \* content.count("/**") >= count("class ") + count("fun ")
    "pkg:com", "pkg:org", "pkg:net" }  \* first component of the package line

Absent == [kind |-> "absent", text |-> {}]

Dir == [kind |-> "dir", text |-> {}]

File(tokens) == [kind |-> "file", text |-> tokens]

Exists(t, p) == t[p].kind # "absent"

IsFile(t, p) == t[p].kind = "file"

EmptyTree == [p \in Paths |-> Absent]

\* rglob("*.kt"), in the order rglob yields
KotlinFiles(t) == SelectSeq(KotlinOrder, LAMBDA p : IsFile(t, p))

\* [f for f in kotlin_files if "/test/" not in str(f) and "/androidTest/" not in str(f)]
SourceFiles(t) == SelectSeq(KotlinFiles(t), LAMBDA p : p \notin TestKt)

\* [f for f in kotlin_files if "/test/" in str(f) or "/androidTest/" in str(f)]
TestFiles(t) == SelectSeq(KotlinFiles(t), LAMBDA p : p \in TestKt)

\* first component of the package line of a Kotlin file, if it has one
PackageTokens == {"pkg:com", "pkg:org", "pkg:net"}

(***************************************************************************)
(* Execution of a handler.  A handler runs on a record                     *)
(*   tree   the project tree                                               *)
(*   mods   modifications_made of the agent that runs                      *)
(*   clock  what datetime.now() returns at the next call                   *)
(*   tick   how far the clock moves between two calls                      *)
(*   bad    the paths on which mkdir / write_text raise                    *)
(*   fixed  fixed_count of the running fix                                 *)
(*   seen   what became of each issue whose loop iteration has completed   *)
(*   swallowed  exceptions caught by an "except: pass"                     *)
(*   raised an exception is propagating                                    *)
(* Once an exception propagates every later statement is skipped.          *)
(***************************************************************************)
Raise(st) == [st EXCEPT !.raised = TRUE]

\* Path.mkdir(parents=True, exist_ok=True) on the tracked directories ds,
\* parents first: a directory is created unless it, or a directory above it
\* that has to be created, cannot be written.
Mkdir(st, ds) ==
  IF st.raised THEN st
  ELSE
    LET blocked(d) == \E a \in (Ancestors[d] \cup {d}) :
                         ~Exists(st.tree, a) /\ a \in st.bad
        made == { d \in ds : ~Exists(st.tree, d) /\ ~blocked(d) }
        t2 == [p \in Paths |-> IF p \in made THEN Dir ELSE st.tree[p]]
    IN  IF \E d \in ds : ~Exists(st.tree, d) /\ blocked(d)
          THEN Raise([st EXCEPT !.tree = t2])
          ELSE [st EXCEPT !.tree = t2]

\* path.parent.mkdir(parents=True, exist_ok=True)
MkdirParent(st, p) == Mkdir(st, Ancestors[p])

\* Path.write_text: PermissionError on an unwritable path, FileNotFoundError
\* when a directory above the path is missing
WriteText(st, p, tokens) ==
  IF st.raised THEN st
  ELSE IF p \in st.bad \/ (\E a \in Ancestors[p] : ~Exists(st.tree, a))
    THEN Raise(st)
    ELSE [st EXCEPT !.tree[p] = File(tokens)]

\* a faulty add_modification: the entry is inserted in front of the list
AddModificationFront(st, file_path, description) ==
  IF st.raised THEN st
  ELSE [st EXCEPT !.mods = <<[file |-> file_path,
                              description |-> description,
                              timestamp |-> st.clock]>> \o @,
                  !.clock = @ + st.tick]

\* AgentBase.add_modification
AddModification(st, file_path, description) ==
  IF st.raised THEN st
  ELSE [st EXCEPT !.mods = Append(@, [file |-> file_path,
                                      description |-> description,
                                      timestamp |-> st.clock]),
                  !.clock = @ + st.tick]

\* try: ... except: pass  (before: the record on entry, after: on exit)
ExceptPass(before, after) ==
  IF before.raised THEN before
  ELSE IF after.raised THEN [after EXCEPT !.raised = FALSE, !.swallowed = @ + 1]
  ELSE after

\* a faulty count: fixed_count += 2
CountFixedTwice(st) == IF st.raised THEN st ELSE [st EXCEPT !.fixed = @ + 2]

\* fixed_count += 1
CountFixed(st) == IF st.raised THEN st ELSE [st EXCEPT !.fixed = @ + 1]

\* End of one iteration of "for issue in issues": what the iteration did,
\* from the record before it and after it.
\*   "recorded"   counted as fixed, a modification was recorded
\*   "swallowed"  counted as fixed although an exception was caught
\*   "silent"     counted as fixed, nothing recorded, nothing caught
\*   "unhandled"  no branch of the dispatch matched the issue's type
Outcome(before, after) ==
  IF after.fixed = before.fixed THEN "unhandled"
  ELSE IF after.swallowed > before.swallowed THEN "swallowed"
  ELSE IF Len(after.mods) > Len(before.mods) THEN "recorded"
  ELSE "silent"

NextIssue(before, after) ==
  IF after.raised THEN after
  ELSE [after EXCEPT !.seen = Append(@, Outcome(before, after))]

\* parent.mkdir, write_text, add_modification: the generator helpers
Generate(st, p, tokens, description) ==
  AddModification(WriteText(MkdirParent(st, p), p, tokens), p, description)

(***************************************************************************)
(* Issues.                                                                 *)
(***************************************************************************)
Issue(type, severity) ==
  [type |-> type, severity |-> severity, path |-> "", test_path |-> "",
   count |-> 0, packages |-> {}]

FileIssue(type, severity, path) == [Issue(type, severity) EXCEPT !.path = path]

\* the issues of a sequence of files, in order, one per file that satisfies cond
IssuesOf(files, cond(_), make(_)) ==
  LET hit == SelectSeq(files, cond)
  IN  [i \in 1..Len(hit) |-> make(hit[i])]

(***************************************************************************)
(* TestCoverageAgent                                                       *)
(***************************************************************************)
TestDirs == <<TestRoot, AndroidTestRoot>>

\* TestCoverageAgent.analyze: the "issues" of the result
TestCoverageAnalyze(t) ==
  IssuesOf(TestDirs, LAMBDA d : ~Exists(t, d),
           LAMBDA d : FileIssue("missing_test_directory", "high", d))
  \o IssuesOf(SourceFiles(t), LAMBDA f : ~Exists(t, TestPathOf[f]),
              LAMBDA f : [FileIssue("missing_test_file", "medium", f)
                            EXCEPT !.test_path = TestPathOf[f]])

\* coverage >= 85, where coverage = min(len(test_files) / len(source_files) * 100, 100)
\* and 0.0 when there is no source file
CoverageThreshold == 85

EstimateCoverage(t) ==
  LET sources == Len(SourceFiles(t))
      tests == Len(TestFiles(t))
  IN  IF sources = 0 THEN 0
      ELSE IF tests >= sources THEN 100 ELSE (tests * 100) \div sources

TestCoverageValidate(t) ==
  LET sources == Len(SourceFiles(t))
      tests == Len(TestFiles(t))
  IN  sources # 0 /\ (tests >= sources \/ tests * 100 >= CoverageThreshold * sources)

\* _generate_test_content: "package {package_path}.test", where package_path is
\* the package line of the source or, failing that, its directory under
\* app/src/main/java (com.astralplayer...)
GenerateTestContent(t, source) ==
  LET pk == IF IsFile(t, source) THEN t[source].text \cap PackageTokens ELSE {}
  IN  IF pk = {} THEN {"pkg:com"} ELSE pk

GenerateIntegrationTests(st) ==
  Generate(st, IntegrationTest, {"pkg:com"}, "Generated integration tests")

GenerateUiTests(st) == Generate(st, UiTest, {"pkg:com"}, "Generated UI tests")

GeneratePerformanceTests(st) ==
  Generate(st, Benchmark, {"pkg:com"}, "Generated performance benchmarks")

\* the body of "for issue in issues" of TestCoverageAgent.fix
TestCoverageFixIssue(st, issue) ==
  IF issue.type = "missing_test_directory"
    THEN CountFixed(AddModification(Mkdir(st, {issue.path} \cup Ancestors[issue.path]),
                                    issue.path, "Created test directory"))
  ELSE IF issue.type = "missing_test_file"
    THEN CountFixed(Generate(st, issue.test_path,
                             GenerateTestContent(st.tree, issue.path),
                             "Generated comprehensive test file"))
  ELSE st

\* what follows the loop in TestCoverageAgent.fix
TestCoverageFixExtras(st) ==
  GeneratePerformanceTests(GenerateUiTests(GenerateIntegrationTests(st)))

(***************************************************************************)
(* ArchitectureAgent                                                       *)
(***************************************************************************)
Databases == <<"AstralStreamDatabase", "AstralVuDatabase", "NextPlayerDatabase">>

\* rglob(f"*{pattern}*.kt")
Matching(t, pattern) == { p \in Named(pattern) : IsFile(t, p) }

DbCount(t) == Cardinality({ i \in 1..Len(Databases) : Matching(t, Databases[i]) # {} })

\* the set "packages": first components of the package lines of all Kotlin files
Packages(t) ==
  UNION { t[p].text \cap PackageTokens : p \in { q \in KotlinPaths : IsFile(t, q) } }

ArchitectureAnalyze(t) ==
  (IF DbCount(t) > 1
     THEN <<[Issue("multiple_databases", "high") EXCEPT !.count = DbCount(t)]>> ELSE <<>>)
  \o (IF Cardinality(Packages(t)) > 2
        THEN <<[Issue("inconsistent_packages", "medium") EXCEPT !.packages = Packages(t)]>>
        ELSE <<>>)
  \o (IF Cardinality(Matching(t, "Navigation")) < 2
        THEN <<Issue("incomplete_navigation", "medium")>> ELSE <<>>)

ArchitectureValidate(t) ==
  Exists(t, DomainDir) /\ Exists(t, DataDir) /\ Exists(t, PresentationDir)

UnifiedDatabase == KtFile(DataDir \o "/database", "AstralStreamDatabase")

ConsolidateDatabases(st) ==
  Generate(st, UnifiedDatabase, {"pkg:com", "companionContext"}, "Created unified database")

\* the keys of "replacements"
OldPackages == {"nextplayer", "astralstream"}

\* one iteration of the loop of _standardize_packages, with its try / except: pass
StandardizeFile(st, kt_file) ==
  IF st.raised THEN st
  ELSE IF ~IsFile(st.tree, kt_file) THEN st
  ELSE IF st.tree[kt_file].text \cap OldPackages # {}
    THEN ExceptPass(st,
           AddModification(WriteText(st, kt_file, st.tree[kt_file].text \ OldPackages),
                           kt_file, "Standardized package names"))
    ELSE st

RECURSIVE StandardizeLoop(_, _)
StandardizeLoop(st, files) ==
  IF files = <<>> THEN st
  ELSE StandardizeLoop(StandardizeFile(st, Head(files)), Tail(files))

StandardizePackages(st) ==
  IF st.raised THEN st ELSE StandardizeLoop(st, KotlinFiles(st.tree))

NavigationFile == KtFile(PresentationDir \o "/navigation", "AstralStreamNavigation")

EnhanceNavigation(st) ==
  Generate(st, NavigationFile, {"pkg:com"}, "Enhanced navigation with deep linking")

DomainInterfaces == <<"VideoPlayerRepository", "SubtitleRepository", "CloudStorageRepository">>

UseCases == <<"PlayVideoUseCase", "GenerateSubtitlesUseCase">>

\* for name, content in d.items(): mkdir, write_text, add_modification
RECURSIVE GenerateAll(_, _, _, _)
GenerateAll(st, dir, stems, suffix) ==
  IF stems = <<>> THEN st
  ELSE GenerateAll(Generate(st, KtFile(dir, Head(stems)), {"pkg:com"},
                            "Created " \o Head(stems) \o suffix),
                   dir, Tail(stems), suffix)

CreateDomainInterfaces(st) ==
  GenerateAll(st, DomainDir \o "/repository", DomainInterfaces, " interface")

ImplementUseCases(st) == GenerateAll(st, DomainDir \o "/usecase", UseCases, "")

ArchitectureFixIssue(st, issue) ==
  IF issue.type = "multiple_databases" THEN CountFixed(ConsolidateDatabases(st))
  ELSE IF issue.type = "inconsistent_packages" THEN CountFixed(StandardizePackages(st))
  ELSE IF issue.type = "incomplete_navigation" THEN CountFixed(EnhanceNavigation(st))
  ELSE st

ArchitectureFixExtras(st) == ImplementUseCases(CreateDomainInterfaces(st))

(***************************************************************************)
(* SecurityAgent                                                           *)
(***************************************************************************)
HasCertificatePinning(t) ==
  \E p \in Matching(t, "Network") : "CertificatePinner" \in t[p].text

HasEncryption(t) == \E p \in Matching(t, "Security") : "Cipher" \in t[p].text

SecurityAnalyze(t) ==
  (IF ~HasCertificatePinning(t)
     THEN <<Issue("missing_certificate_pinning", "high")>> ELSE <<>>)
  \o (IF ~Exists(t, Proguard) \/ "long" \notin t[Proguard].text
        THEN <<Issue("insufficient_obfuscation", "medium")>> ELSE <<>>)
  \o IssuesOf(KotlinFiles(t), LAMBDA f : "http" \in t[f].text,
              LAMBDA f : FileIssue("insecure_http", "high", f))

SecurityValidate(t) ==
  HasCertificatePinning(t) /\ Exists(t, Proguard) /\ HasEncryption(t)

CertPinningFile == KtFile(JavaRoot \o "/network/security", "SecureNetworkClient")

ImplementCertificatePinning(st) ==
  Generate(st, CertPinningFile, {"pkg:com", "CertificatePinner"},
           "Implemented certificate pinning")

\* _enhance_obfuscation: write_text with no mkdir of the parent
EnhanceObfuscation(st) ==
  AddModification(WriteText(st, Proguard, {"long"}), Proguard,
                  "Enhanced ProGuard obfuscation rules")

\* the try block shared by _fix_insecure_endpoints, _fix_memory_leak and
\* _fix_coroutine_scope: read_text, rewrite, write_text, add_modification,
\* and "except: pass" around all of it
Rewrite(st, file_path, newText(_), description) ==
  IF st.raised THEN st
  ELSE IF ~IsFile(st.tree, file_path) THEN st   \* read_text raises, except: pass
  ELSE ExceptPass(st,
         AddModification(WriteText(st, file_path, newText(st.tree[file_path].text)),
                         file_path, description))

FixInsecureEndpoints(st, file_path) ==
  Rewrite(st, file_path, LAMBDA text : text \ {"http"}, "Fixed insecure HTTP endpoints")

BiometricFile == KtFile(JavaRoot \o "/security", "BiometricAuthManager")

ImplementBiometricAuth(st) ==
  Generate(st, BiometricFile, {"pkg:com"}, "Implemented biometric authentication")

EncryptionFile == KtFile(JavaRoot \o "/security", "AdvancedEncryptionManager")

EnhanceDataEncryption(st) ==
  Generate(st, EncryptionFile, {"pkg:com", "Cipher"}, "Enhanced data encryption")

SecurityFixIssue(st, issue) ==
  IF issue.type = "missing_certificate_pinning"
    THEN CountFixed(ImplementCertificatePinning(st))
  ELSE IF issue.type = "insufficient_obfuscation" THEN CountFixed(EnhanceObfuscation(st))
  ELSE IF issue.type = "insecure_http"
    THEN CountFixed(FixInsecureEndpoints(st, issue.path))
  ELSE st

SecurityFixExtras(st) == EnhanceDataEncryption(ImplementBiometricAuth(st))

(***************************************************************************)
(* PerformanceAgent                                                        *)
(***************************************************************************)
\* up to two issues per file, the memory leak first
PerformanceFileIssues(t, f) ==
  (IF "companionContext" \in t[f].text
     THEN <<FileIssue("potential_memory_leak", "high", f)>> ELSE <<>>)
  \o (IF "GlobalScope" \in t[f].text
        THEN <<FileIssue("global_scope_usage", "medium", f)>> ELSE <<>>)

RECURSIVE PerformanceScan(_, _)
PerformanceScan(t, files) ==
  IF files = <<>> THEN <<>>
  ELSE PerformanceFileIssues(t, Head(files)) \o PerformanceScan(t, Tail(files))

PerformanceAnalyze(t) ==
  PerformanceScan(t, KotlinFiles(t))
  \o (IF ~Exists(t, BaselineProfile)
        THEN <<Issue("missing_baseline_profile", "medium")>> ELSE <<>>)

PerformanceValidate(t) == Matching(t, "Performance") # {}

\* the replace happens only under the same test analyze makes; "Context" stays
\* in the text (WeakReference<Context>), the lateinit declaration goes
FixMemoryLeak(st, file_path) ==
  Rewrite(st, file_path,
          LAMBDA text : IF "companionContext" \in text
                          THEN text \ {"lateinitContext"} ELSE text,
          "Fixed potential memory leak")

FixCoroutineScope(st, file_path) ==
  Rewrite(st, file_path, LAMBDA text : text \ {"GlobalScope"},
          "Replaced GlobalScope with lifecycleScope")

CreateBaselineProfile(st) ==
  Generate(st, BaselineProfile, {"long"}, "Created baseline profile")

\* records a modification of "build.gradle" and writes nothing
OptimizeBuildConfig(st) ==
  AddModification(st, "build.gradle", "Optimized build configuration")

LazyLoadingFile == KtFile(JavaRoot \o "/performance", "LazyComponentLoader")

ImplementLazyLoading(st) ==
  Generate(st, LazyLoadingFile, {"pkg:com"}, "Implemented lazy loading")

PerformanceMonitorFile == KtFile(JavaRoot \o "/performance", "AdvancedPerformanceMonitor")

AddPerformanceMonitoring(st) ==
  Generate(st, PerformanceMonitorFile, {"pkg:com"},
           "Added advanced performance monitoring")

PerformanceFixIssue(st, issue) ==
  IF issue.type = "potential_memory_leak" THEN CountFixed(FixMemoryLeak(st, issue.path))
  ELSE IF issue.type = "global_scope_usage"
    THEN CountFixed(FixCoroutineScope(st, issue.path))
  ELSE IF issue.type = "missing_baseline_profile" THEN CountFixed(CreateBaselineProfile(st))
  ELSE st

PerformanceFixExtras(st) ==
  AddPerformanceMonitoring(ImplementLazyLoading(OptimizeBuildConfig(st)))

(***************************************************************************)
(* DocumentationAgent                                                      *)
(***************************************************************************)
UndocumentedLimit == 10

UndocumentedCount(t) ==
  Cardinality({ p \in KotlinPaths : IsFile(t, p) /\ "documented" \notin t[p].text })

DocumentationAnalyze(t) ==
  (IF ~Exists(t, Readme) THEN <<Issue("missing_readme", "high")>> ELSE <<>>)
  \o (IF ~Exists(t, DocsDir) THEN <<Issue("missing_api_docs", "medium")>> ELSE <<>>)
  \o (IF UndocumentedCount(t) > UndocumentedLimit
        THEN <<[Issue("insufficient_inline_docs", "medium")
                  EXCEPT !.count = UndocumentedCount(t)]>>
        ELSE <<>>)

DocumentationValidate(t) == Exists(t, Readme) /\ Exists(t, DocsDir)

GenerateReadme(st) ==
  AddModification(WriteText(st, Readme, {"long"}), Readme, "Generated comprehensive README")

\* docs_dir.mkdir(exist_ok=True), then API.md
GenerateApiDocs(st) ==
  AddModification(WriteText(Mkdir(st, {DocsDir}), ApiDoc, {"long"}), ApiDoc,
                  "Generated API documentation")

EnhanceInlineDocs(st) ==
  AddModification(st, "Multiple files", "Enhanced inline documentation")

GenerateArchitectureDocs(st) ==
  Generate(st, ArchDoc, {"long"}, "Generated architecture documentation")

\* write_text with no mkdir of docs/
GenerateSetupGuide(st) ==
  AddModification(WriteText(st, SetupDoc, {"long"}), SetupDoc, "Generated setup guide")

GenerateContributingGuide(st) ==
  AddModification(WriteText(st, Contributing, {"long"}), Contributing,
                  "Generated contributing guide")

DocumentationFixIssue(st, issue) ==
  IF issue.type = "missing_readme" THEN CountFixed(GenerateReadme(st))
  ELSE IF issue.type = "missing_api_docs" THEN CountFixed(GenerateApiDocs(st))
  ELSE IF issue.type = "insufficient_inline_docs" THEN CountFixed(EnhanceInlineDocs(st))
  ELSE st

DocumentationFixExtras(st) ==
  GenerateContributingGuide(GenerateSetupGuide(GenerateArchitectureDocs(st)))

(***************************************************************************)
(* The roster and the three calls of an agent.                             *)
(***************************************************************************)
\* MasterOrchestrator.__init__: self.agents
Agents ==
  <<"TestCoverageAgent", "ArchitectureAgent", "SecurityAgent",
    "PerformanceAgent", "DocumentationAgent">>

AgentNames == { Agents[i] : i \in 1..Len(Agents) }

\* the unguarded read of SecurityAgent.analyze:
\*   not proguard_file.exists() or len(proguard_file.read_text()) < 100
\* (every other read_text of the analyses sits in a try / except: pass)
AnalyzeRaises(a, t, bad) ==
  a = "SecurityAgent" /\ IsFile(t, Proguard) /\ Proguard \in bad

AgentAnalyze(a, t) ==
  CASE a = "TestCoverageAgent" -> TestCoverageAnalyze(t)
    [] a = "ArchitectureAgent" -> ArchitectureAnalyze(t)
    [] a = "SecurityAgent" -> SecurityAnalyze(t)
    [] a = "PerformanceAgent" -> PerformanceAnalyze(t)
    [] a = "DocumentationAgent" -> DocumentationAnalyze(t)

AgentValidate(a, t) ==
  CASE a = "TestCoverageAgent" -> TestCoverageValidate(t)
    [] a = "ArchitectureAgent" -> ArchitectureValidate(t)
    [] a = "SecurityAgent" -> SecurityValidate(t)
    [] a = "PerformanceAgent" -> PerformanceValidate(t)
    [] a = "DocumentationAgent" -> DocumentationValidate(t)

\* a faulty analyze: the issues are added to self.issues_found, and returned
AgentAnalyzeExtends(a, t, found) == found \o AgentAnalyze(a, t)

\* <Agent>.analyze() on an agent whose issues_found is found:
\*   issues = [] ... self.issues_found = issues; return {..., "issues": issues}
AgentAnalyzeCall(a, t, found) == AgentAnalyze(a, t)

\* a faulty validate: valid when the last analysis found nothing
AgentValidateFromIssues(a, t, found, mods) == found = <<>>

\* <Agent>.validate() on an agent whose issues_found and modifications_made
\* are found and mods
AgentValidateCall(a, t, found, mods) == AgentValidate(a, t)

FixIssue(a, st, issue) ==
  CASE a = "TestCoverageAgent" -> TestCoverageFixIssue(st, issue)
    [] a = "ArchitectureAgent" -> ArchitectureFixIssue(st, issue)
    [] a = "SecurityAgent" -> SecurityFixIssue(st, issue)
    [] a = "PerformanceAgent" -> PerformanceFixIssue(st, issue)
    [] a = "DocumentationAgent" -> DocumentationFixIssue(st, issue)

FixExtras(a, st) ==
  CASE a = "TestCoverageAgent" -> TestCoverageFixExtras(st)
    [] a = "ArchitectureAgent" -> ArchitectureFixExtras(st)
    [] a = "SecurityAgent" -> SecurityFixExtras(st)
    [] a = "PerformanceAgent" -> PerformanceFixExtras(st)
    [] a = "DocumentationAgent" -> DocumentationFixExtras(st)

\* the issue types the "if / elif" chain of each fix compares with
FixKinds(a) ==
  CASE a = "TestCoverageAgent" -> {"missing_test_directory", "missing_test_file"}
    [] a = "ArchitectureAgent" ->
         {"multiple_databases", "inconsistent_packages", "incomplete_navigation"}
    [] a = "SecurityAgent" ->
         {"missing_certificate_pinning", "insufficient_obfuscation", "insecure_http"}
    [] a = "PerformanceAgent" ->
         {"potential_memory_leak", "global_scope_usage", "missing_baseline_profile"}
    [] a = "DocumentationAgent" ->
         {"missing_readme", "missing_api_docs", "insufficient_inline_docs"}

\* for issue in issues: ...
RECURSIVE FixLoop(_, _, _)
FixLoop(a, st, issues) ==
  IF issues = <<>> \/ st.raised THEN st
  ELSE FixLoop(a, NextIssue(st, FixIssue(a, st, Head(issues))), Tail(issues))

\* the record a fix call starts from
FixStart(t, mods, now, tick, bad) ==
  [tree |-> t, mods |-> mods, clock |-> now, tick |-> tick, bad |-> bad,
   fixed |-> 0, seen |-> <<>>, swallowed |-> 0, raised |-> FALSE]

\* <Agent>.fix(issues): the loop, then the additional artifacts; when it
\* returns, the result is {"fixed": fixed_count, "total": len(issues)}
AgentFix(a, st, issues) == FixExtras(a, FixLoop(a, st, issues))

FixResult(st, issues) == [fixed |-> st.fixed, total |-> Len(issues)]

(***************************************************************************)
(* State.                                                                  *)
(***************************************************************************)
VARIABLES
  prog,               \* which script runs: "team", "elite", or "agent" (one agent driven directly)
  args,               \* the command line: valid, dry_run, skip_backup
  env,                \* the environment: does the project path exist, does copytree succeed, clock tick
  unwritable,         \* paths on which mkdir / write_text raise
  unreadable,         \* paths on which read_text raises
  initial_tree,       \* history: the project tree when the script started
  pc,                 \* where the script is
  idx,                \* index of the agent, or of the step, the current loop is at
  tree,               \* the project tree
  backups,            \* the backup directories created next to the project
  clock,              \* datetime.now()
  all_issues,         \* run_full_upgrade: all_issues, a dict from agent name to its issues
  issues_found,       \* agent.issues_found
  modifications_made, \* agent.modifications_made
  all_valid,          \* run_full_upgrade: all_valid
  kotlin_files,       \* elite agent: self.kotlin_files
  modifications_log,  \* elite agent: self.modifications_log
  exit_code,          \* exit status of the process, -1 while it runs
  fix_calls,          \* history: the fix calls made, with what they returned
  validations,        \* history: the validate calls made, with what they returned
  analyses,           \* history: the analyze calls made, with what they returned
  events,             \* history: the calls of the run, in order
  ending              \* history: how the run ended

vars ==
  <<prog, args, env, unwritable, unreadable, initial_tree, pc, idx, tree, backups, clock, all_issues, issues_found,
    modifications_made, all_valid, kotlin_files, modifications_log, exit_code, fix_calls,
    validations, analyses, events, ending>>

\* what no action changes
fixedVars == <<prog, args, env, unwritable, unreadable, initial_tree>>

Event(op, who) == [op |-> op, agent |-> who]

(***************************************************************************)
(* Initial project trees.                                                  *)
(***************************************************************************)
UserFile(i) == KtFile(JavaRoot, UserStems[i])

\* texts a user source may have
UserTexts ==
  { {"pkg:com"},
    {"pkg:com", "http"},
    {"pkg:com", "nextplayer", "adultContent"},
    {"pkg:com", "http", "companionContext", "lateinitContext", "GlobalScope"} }

NavigationGraph == KtFile(PresentationDir \o "/navigation", "NavigationGraph")

LegacyDb1 == KtFile(DataDir \o "/database", "AstralVuDatabase")

LegacyDb2 == KtFile(DataDir \o "/database", "NextPlayerDatabase")

SecurityManagerFile == KtFile(JavaRoot \o "/security", "SecurityManager")

EliteNetworkClient == KtFile(JavaRoot \o "/network", "SecureNetworkClient")

PerformanceOptimizerFile == KtFile(JavaRoot \o "/player/performance", "PerformanceOptimizer")

\* parts a project may already have: what each part puts in the tree
Parts == {"testDirs", "layers", "legacyDbs", "security", "performance", "docs"}

PartContent(part) ==
  CASE part = "testDirs" ->
         (TestRoot :> Dir) @@ (AndroidTestRoot :> Dir)
    [] part = "layers" ->
         (DomainDir :> Dir) @@ (DataDir :> Dir) @@ (PresentationDir :> Dir)
         @@ (NavigationFile :> File({"pkg:com"})) @@ (NavigationGraph :> File({"pkg:com"}))
    [] part = "legacyDbs" ->
         (DataDir :> Dir) @@ (LegacyDb1 :> File({"pkg:org"}))
         @@ (LegacyDb2 :> File({"pkg:net", "astralstream"}))
    [] part = "security" ->
         (SecurityManagerFile :> File({"pkg:com", "Cipher"}))
         @@ (EliteNetworkClient :> File({"pkg:com", "CertificatePinner"}))
         @@ (Proguard :> File({"long"}))
    [] part = "performance" ->
         (PerformanceOptimizerFile :> File({"pkg:com"})) @@ (BaselineProfile :> File({"long"}))
    [] part = "docs" ->
         (Readme :> File({"long"})) @@ (DocsDir :> Dir) @@ (ApiDoc :> File({"long"}))

\* the tree that holds the given parts and user files (a function from the
\* user files present to their text); "app" exists when anything below it does
MakeTree(parts, users) ==
  LET placed(p) == { part \in parts : p \in DOMAIN PartContent(part) }
      t1 == [p \in Paths |->
               IF p \in DOMAIN users THEN File(users[p])
               ELSE IF placed(p) # {} THEN PartContent(CHOOSE part \in placed(p) : TRUE)[p]
               ELSE Absent]
  IN  [t1 EXCEPT ![AppDir] =
         IF \E p \in Paths : AppDir \in Ancestors[p] /\ Exists(t1, p) THEN Dir ELSE Absent]

UserChoices ==
  UNION { [ { UserFile(i) : i \in 1..k } -> UserTexts ] : k \in 0..MaxUserFiles }

\* projects that have at most one of the parts, or lack at most one
PartChoices ==
  { ps \in SUBSET Parts : Cardinality(ps) <= 1 \/ Cardinality(Parts \ ps) <= 1 }

InitialTrees == { MakeTree(parts, users) : parts \in PartChoices, users \in UserChoices }

\* paths on which a read may fail
ReadFaultCandidates == {Proguard}

\* paths on which a write may fail
FaultCandidates ==
  {TestRoot, UserFile(1), Proguard, NavigationFile, Benchmark, TeamReportPath}

FaultSets == { f \in SUBSET FaultCandidates : Cardinality(f) <= MaxFaults }

(***************************************************************************)
(* The expert team: main and MasterOrchestrator.run_full_upgrade.          *)
(***************************************************************************)
NoAgentState ==
  /\ initial_tree = tree
  /\ all_issues = <<>>
  /\ issues_found = [a \in AgentNames |-> <<>>]
  /\ modifications_made = [a \in AgentNames |-> <<>>]
  /\ all_valid = TRUE
  /\ kotlin_files = <<>>
  /\ modifications_log = <<>>
  /\ fix_calls = <<>>
  /\ validations = <<>>
  /\ analyses = <<>>
  /\ events = <<>>
  /\ backups = <<>>
  /\ clock = 0
  /\ exit_code = -1
  /\ ending = "running"

TeamInit ==
  /\ prog = "team"
  /\ args \in [valid : BOOLEAN, dry_run : {FALSE}, skip_backup : {FALSE}]
  /\ env \in [path_exists : BOOLEAN, backup_ok : BOOLEAN, tick : 0..MaxTick]
  /\ tree \in InitialTrees
  /\ unwritable \in FaultSets
  /\ unreadable \in SUBSET ReadFaultCandidates
  /\ Cardinality(unwritable) + Cardinality(unreadable) <= MaxFaults
  /\ \A p \in unreadable : IsFile(tree, p)
  /\ ~env.path_exists => tree = EmptyTree /\ unwritable = {}
  \* a run that stops before the first agent is started once per environment
  /\ ~(args.valid /\ env.path_exists /\ env.backup_ok) =>
       env.tick = 0 /\ unwritable = {} /\ unreadable = {}
  \* the clock is varied in the runs in which no read or write fails
  /\ env.tick > 0 => unwritable = {} /\ unreadable = {}
  /\ pc = "main"
  /\ idx = 0
  /\ NoAgentState

\* a faulty run_full_upgrade: the analysis starts with no backup made
TeamMainNoBackup ==
  /\ prog = "team" /\ pc = "main"
  /\ IF args.valid
       THEN pc' = "analysis" /\ idx' = 1 /\ UNCHANGED <<exit_code, ending>>
       ELSE pc' = "exited" /\ idx' = idx /\ exit_code' = 2 /\ ending' = "usage"
  /\ UNCHANGED <<fixedVars, tree, backups, clock, all_issues, issues_found,
                 modifications_made, all_valid, kotlin_files, modifications_log,
                 fix_calls, validations, analyses, events>>

\* main: parse_args exits with status 2 on a bad command line; otherwise the
\* orchestrator is built and run_full_upgrade starts
TeamMain ==
  /\ prog = "team" /\ pc = "main"
  /\ IF args.valid
       THEN pc' = "backup" /\ UNCHANGED <<exit_code, ending>>
       ELSE pc' = "exited" /\ exit_code' = 2 /\ ending' = "usage"
  /\ UNCHANGED <<fixedVars, idx, tree, backups, clock, all_issues, issues_found,
                 modifications_made, all_valid, kotlin_files, modifications_log,
                 fix_calls, validations, analyses, events>>

\* a faulty copy: the destination directory is made before the source is listed
CopyTreeDirFirst ==
  IF ~env.path_exists \/ ~env.backup_ok
    THEN [raised |-> TRUE, made |-> <<[complete |-> FALSE, content |-> EmptyTree]>>]
    ELSE [raised |-> FALSE, made |-> <<[complete |-> TRUE, content |-> tree]>>]

\* shutil.copytree(project_path, backup_path): raises when the project path
\* does not exist (nothing is created) or when the copy fails (the
\* destination directory stays, incomplete)
CopyTree ==
  IF ~env.path_exists THEN [raised |-> TRUE, made |-> <<>>]
  ELSE IF ~env.backup_ok THEN [raised |-> TRUE, made |-> <<[complete |-> FALSE, content |-> EmptyTree]>>]
  ELSE [raised |-> FALSE, made |-> <<[complete |-> TRUE, content |-> tree]>>]

\* a faulty _create_backup: the failure of the copy is caught and the run goes on
TeamCreateBackupSwallows ==
  /\ prog = "team" /\ pc = "backup"
  /\ backups' = backups \o CopyTree.made
  /\ events' = Append(events, Event("backup", "-"))
  /\ pc' = "analysis" /\ idx' = 1
  /\ UNCHANGED <<fixedVars, tree, clock, all_issues, issues_found, modifications_made,
                 all_valid, kotlin_files, modifications_log, exit_code, fix_calls,
                 validations, analyses, ending>>

\* _create_backup, called first in run_full_upgrade
TeamCreateBackup ==
  /\ prog = "team" /\ pc = "backup"
  /\ backups' = backups \o CopyTree.made
  /\ events' = Append(events, Event("backup", "-"))
  /\ IF CopyTree.raised
       THEN pc' = "uncaught" /\ idx' = idx
       ELSE pc' = "analysis" /\ idx' = 1
  /\ UNCHANGED <<fixedVars, tree, clock, all_issues, issues_found, modifications_made,
                 all_valid, kotlin_files, modifications_log, exit_code, fix_calls,
                 validations, analyses, ending>>

\* a faulty loop: the phase is left after its first agent
AfterFirstAgent(nextPhase) ==
  IF idx = 1 THEN pc' = nextPhase /\ idx' = 1
             ELSE pc' = pc /\ idx' = idx + 1

\* "for agent in self.agents": after the last agent the next phase starts
\* with the first agent
AfterAgent(nextPhase) ==
  IF idx = Len(Agents) THEN pc' = nextPhase /\ idx' = 1
                       ELSE pc' = pc /\ idx' = idx + 1

\* the history entry of an analyze call, and of a validate call
AnalyzeCall(a, issues) == [agent |-> a, issues |-> issues, at |-> Len(events) + 1]

ValidateCall(a, valid) == [agent |-> a, valid |-> valid, at |-> Len(events) + 1]

\* a faulty analysis: analyze creates the test directories it looks for
TeamAnalyzeCreatesDirs ==
  /\ prog = "team" /\ pc = "analysis"
  /\ LET a == Agents[idx]
         issues == AgentAnalyzeCall(a, tree, issues_found[a])
     IN  /\ issues_found' = [issues_found EXCEPT ![a] = issues]
         /\ all_issues' = all_issues @@ (a :> issues)
         /\ analyses' = Append(analyses, AnalyzeCall(a, issues))
         /\ events' = Append(events, Event("analyze", a))
         /\ tree' = [tree EXCEPT ![AppDir] = Dir, ![TestRoot] = Dir]
         /\ AfterAgent("fixing")
  /\ UNCHANGED <<fixedVars, backups, clock, modifications_made, all_valid,
                 kotlin_files, modifications_log, exit_code, fix_calls, validations, ending>>

\* Phase 1, one iteration: analysis = await agent.analyze();
\* all_issues[agent.name] = analysis
TeamAnalyze ==
  /\ prog = "team" /\ pc = "analysis"
  /\ LET a == Agents[idx]
         issues == AgentAnalyzeCall(a, tree, issues_found[a])
     IN  IF AnalyzeRaises(a, tree, unreadable)
           THEN \* nothing catches the exception: it leaves run_full_upgrade
                /\ events' = Append(events, Event("analyze_failed", a))
                /\ pc' = "uncaught"
                /\ UNCHANGED <<idx, issues_found, all_issues, analyses>>
           ELSE /\ issues_found' = [issues_found EXCEPT ![a] = issues]
                /\ all_issues' = all_issues @@ (a :> issues)
                /\ analyses' = Append(analyses, AnalyzeCall(a, issues))
                /\ events' = Append(events, Event("analyze", a))
                /\ AfterAgent("fixing")
  /\ UNCHANGED <<fixedVars, tree, backups, clock, modifications_made, all_valid,
                 kotlin_files, modifications_log, exit_code, fix_calls, validations, ending>>

\* the history entry of a fix call
\*   at        position of the call among the calls of the run
\*   recorded  modifications the call appended
\*   changed   did the call change the project tree
FixCall(a, issues, st) ==
  [agent |-> a, issues |-> issues, raised |-> st.raised, fixed |-> st.fixed,
   total |-> Len(issues), seen |-> st.seen, swallowed |-> st.swallowed,
   at |-> Len(events) + 1,
   recorded |-> Len(st.mods) - Len(modifications_made[a]),
   changed |-> (st.tree # tree)]

\* a faulty lookup: every agent is handed the issues of the first agent
IssuesOfFirstAgent(a) == all_issues[Agents[1]]

\* issues = all_issues[agent.name].get("issues", [])
IssuesFor(a) == all_issues[a]

\* a faulty Phase 2: the fix of the next agent is started together with this
\* one (as asyncio.gather would), both run before either result is awaited
TeamFixGathered ==
  /\ prog = "team" /\ pc = "fixing"
  /\ LET a == Agents[idx]
         issues == IssuesFor(a)
         st == AgentFix(a, FixStart(tree, modifications_made[a], clock, env.tick, unwritable),
                        issues)
         more == idx < Len(Agents) /\ ~st.raised
         b == Agents[IF more THEN idx + 1 ELSE idx]
         st2 == IF more
                  THEN AgentFix(b, FixStart(st.tree, modifications_made[b], st.clock,
                                            env.tick, unwritable), IssuesFor(b))
                  ELSE st
     IN  /\ issues # <<>>
         /\ tree' = st2.tree
         /\ modifications_made' =
              IF more THEN [modifications_made EXCEPT ![a] = st.mods, ![b] = st2.mods]
                      ELSE [modifications_made EXCEPT ![a] = st.mods]
         /\ clock' = st2.clock
         /\ fix_calls' = Append(fix_calls, FixCall(a, issues, st))
         /\ events' = Append(events, Event("fix", a))
         /\ IF st.raised THEN pc' = "uncaught" /\ idx' = idx
                         ELSE AfterAgent("validation")
  /\ UNCHANGED <<fixedVars, backups, all_issues, issues_found, all_valid, kotlin_files,
                 modifications_log, exit_code, validations, analyses, ending>>

\* Phase 2, one iteration with issues: result = await agent.fix(issues)
TeamFix ==
  /\ prog = "team" /\ pc = "fixing"
  /\ LET a == Agents[idx]
         issues == IssuesFor(a)
         st == AgentFix(a, FixStart(tree, modifications_made[a], clock, env.tick, unwritable),
                        issues)
     IN  /\ issues # <<>>
         /\ tree' = st.tree
         /\ modifications_made' = [modifications_made EXCEPT ![a] = st.mods]
         /\ clock' = st.clock
         /\ fix_calls' = Append(fix_calls, FixCall(a, issues, st))
         /\ events' = Append(events, Event("fix", a))
         /\ IF st.raised THEN pc' = "uncaught" /\ idx' = idx
                         ELSE AfterAgent("validation")
  /\ UNCHANGED <<fixedVars, backups, all_issues, issues_found, all_valid, kotlin_files,
                 modifications_log, exit_code, validations, analyses, ending>>

\* a faulty Phase 2: fix is called also when the agent found no issue
TeamFixesNothing ==
  /\ prog = "team" /\ pc = "fixing"
  /\ LET a == Agents[idx]
         st == AgentFix(a, FixStart(tree, modifications_made[a], clock, env.tick, unwritable),
                        <<>>)
     IN  /\ IssuesFor(a) = <<>>
         /\ tree' = st.tree
         /\ modifications_made' = [modifications_made EXCEPT ![a] = st.mods]
         /\ clock' = st.clock
         /\ fix_calls' = Append(fix_calls, FixCall(a, <<>>, st))
         /\ events' = Append(events, Event("fix", a))
         /\ IF st.raised THEN pc' = "uncaught" /\ idx' = idx
                         ELSE AfterAgent("validation")
  /\ UNCHANGED <<fixedVars, backups, all_issues, issues_found, all_valid, kotlin_files,
                 modifications_log, exit_code, validations, analyses, ending>>

\* Phase 2, one iteration without issues: agent.log("No issues to fix!")
TeamSkipFix ==
  /\ prog = "team" /\ pc = "fixing"
  /\ IssuesFor(Agents[idx]) = <<>>
  /\ AfterAgent("validation")
  /\ UNCHANGED <<fixedVars, tree, backups, clock, all_issues, issues_found,
                 modifications_made, all_valid, kotlin_files, modifications_log, exit_code,
                 fix_calls, validations, analyses, events, ending>>

\* a faulty accumulation: all_valid = valid, the last agent decides
AccumulateLast(all, valid) == valid

\* all_valid = all_valid and valid
Accumulate(all, valid) == all /\ valid

\* a faulty Phase 3: the loop is left at the first agent that fails
TeamValidateShortCircuit ==
  /\ prog = "team" /\ pc = "validation"
  /\ LET a == Agents[idx]
         valid == AgentValidateCall(a, tree, issues_found[a], modifications_made[a])
     IN  /\ all_valid' = Accumulate(all_valid, valid)
         /\ validations' = Append(validations, ValidateCall(a, valid))
         /\ events' = Append(events, Event("validate", a))
         /\ IF valid THEN AfterAgent("report") ELSE pc' = "report" /\ idx' = 1
  /\ UNCHANGED <<fixedVars, tree, backups, clock, all_issues, issues_found,
                 modifications_made, kotlin_files, modifications_log, exit_code, fix_calls,
                 analyses, ending>>

\* Phase 3, one iteration: valid = await agent.validate();
\* all_valid = all_valid and valid
TeamValidate ==
  /\ prog = "team" /\ pc = "validation"
  /\ LET a == Agents[idx]
         valid == AgentValidateCall(a, tree, issues_found[a], modifications_made[a])
     IN  /\ all_valid' = Accumulate(all_valid, valid)
         /\ validations' = Append(validations, ValidateCall(a, valid))
         /\ events' = Append(events, Event("validate", a))
  /\ AfterAgent("report")
  /\ UNCHANGED <<fixedVars, tree, backups, clock, all_issues, issues_found,
                 modifications_made, kotlin_files, modifications_log, exit_code, fix_calls,
                 analyses, ending>>

\* _generate_final_report, "Agent Reports": for each agent of the roster
\* "Issues Found" is len(agent.issues_found) and "Modifications Made" is
\* len(agent.modifications_made)
AgentReports ==
  [a \in AgentNames |-> [issues_found |-> Len(issues_found[a]),
                         modifications_made |-> Len(modifications_made[a])]]

\* _generate_final_report: report_path.write_text(report); then
\* run_full_upgrade returns all_valid and main returns 0 if success else 1
TeamReport ==
  /\ prog = "team" /\ pc = "report"
  /\ events' = Append(events, Event("report", "-"))
  /\ IF TeamReportPath \in unwritable
       THEN /\ pc' = "uncaught"
            /\ UNCHANGED <<tree, exit_code, ending>>
       ELSE /\ tree' = [tree EXCEPT ![TeamReportPath] = File({"long"})]
            /\ pc' = "exited"
            /\ exit_code' = IF all_valid THEN 0 ELSE 1
            /\ ending' = "returned"
  /\ UNCHANGED <<fixedVars, idx, backups, clock, all_issues, issues_found,
                 modifications_made, all_valid, kotlin_files, modifications_log, fix_calls,
                 validations, analyses>>

\* a faulty abort: the report is written on the way out, as a "finally" would
UncaughtExceptionReports ==
  /\ pc = "uncaught"
  /\ pc' = "exited"
  /\ exit_code' = 1
  /\ ending' = "exception"
  /\ tree' = IF prog = "team" THEN [tree EXCEPT ![TeamReportPath] = File({"long"})] ELSE tree
  /\ UNCHANGED <<fixedVars, idx, backups, clock, all_issues, issues_found,
                 modifications_made, all_valid, kotlin_files, modifications_log, fix_calls,
                 validations, analyses, events>>

\* an exception that nothing catches leaves main: the interpreter prints the
\* traceback and exits with status 1
UncaughtException ==
  /\ pc = "uncaught"
  /\ pc' = "exited"
  /\ exit_code' = 1
  /\ ending' = "exception"
  /\ UNCHANGED <<fixedVars, idx, tree, backups, clock, all_issues, issues_found,
                 modifications_made, all_valid, kotlin_files, modifications_log, fix_calls,
                 validations, analyses, events>>

(***************************************************************************)
(* The elite upgrade agent: main and AstralStreamEliteAgent.               *)
(***************************************************************************)
LogEntry(action, path) == [action |-> action, path |-> path]

\* _update_file_content: the patterns are replaced; when the text changed the
\* file is written and the change logged; "except Exception" prints and goes on
UpdateFileContent(st, file_path, patterns) ==
  IF st.raised THEN st
  ELSE IF ~IsFile(st.tree, file_path) THEN st
  ELSE IF st.tree[file_path].text \cap patterns # {}
    THEN ExceptPass(st,
           LET w == WriteText(st, file_path, st.tree[file_path].text \ patterns)
           IN  IF w.raised THEN w
               ELSE [w EXCEPT !.mods = Append(@, LogEntry("Updated", file_path))])
    ELSE st

RECURSIVE UpdateAll(_, _, _)
UpdateAll(st, files, patterns) ==
  IF files = <<>> THEN st
  ELSE UpdateAll(UpdateFileContent(st, Head(files), patterns), Tail(files), patterns)

\* parent.mkdir(parents=True, exist_ok=True); write_text
EliteWrite(st, p, tokens) == WriteText(MkdirParent(st, p), p, tokens)

RECURSIVE EliteWriteAll(_, _)
EliteWriteAll(st, paths) ==
  IF paths = <<>> THEN st
  ELSE EliteWriteAll(EliteWrite(st, Head(paths), {"pkg:com"}), Tail(paths))

\* _update_or_create_file: after write_text the file exists, so the entry
\* always reads "Updated"
UpdateOrCreateFile(st, p, tokens) ==
  LET w == EliteWrite(st, p, tokens)
  IN  IF w.raised THEN w ELSE [w EXCEPT !.mods = Append(@, LogEntry("Updated", p))]

EliteFile(sub, stem) == KtFile(JavaRoot \o sub, stem)

\* the calls of run_full_upgrade that follow _analyze_project_structure
EliteStepCount == 25

\* The universe holds no duplicate player activity, no XML file and no
\* app/build.gradle.kts, so _remove_duplicate_implementations (step 2) and
\* _optimize_build_configuration (step 21) find nothing to do.
EliteStep(k, st, kotlin) ==
  CASE k = 1 -> UpdateAll(st, kotlin, {"nextplayer"})
    [] k = 2 -> st
    [] k = 3 -> EliteWrite(st, EliteFile("/core/error", "GlobalErrorHandler"), {"pkg:com"})
    [] k = 4 -> EliteWriteAll(st, <<EliteFile("/domain/repository", "VideoRepository"),
                                    EliteFile("/domain/repository", "SubtitleRepository"),
                                    EliteFile("/domain/repository", "StreamExtractorRepository")>>)
    [] k = 5 -> EliteWrite(st, EliteFile("/domain/player", "VideoPlayer"), {"pkg:com"})
    [] k = 6 -> UpdateOrCreateFile(st, EliteFile("/di", "AppModule"), {"pkg:com"})
    [] k = 7 -> EliteWrite(st, SecurityManagerFile, {"pkg:com", "Cipher"})
    [] k = 8 -> EliteWrite(st, EliteNetworkClient, {"pkg:com", "CertificatePinner"})
    [] k = 9 -> UpdateAll(st, kotlin, {"adultContent"})
    [] k = 10 -> EliteWrite(st, PerformanceOptimizerFile, {"pkg:com"})
    [] k = 11 -> EliteWrite(st, EliteFile("/cache", "AdvancedCacheManager"), {"pkg:com"})
    [] k = 12 -> EliteWrite(st, EliteFile("/memory", "MemoryManager"), {"pkg:com"})
    [] k = 13 -> EliteWrite(st, EliteFile("/offline", "OfflinePlaybackManager"), {"pkg:com"})
    [] k = 14 -> EliteWrite(st, EliteFile("/streaming", "AdaptiveStreamingManager"), {"pkg:com"})
    [] k = 15 -> EliteWrite(st, EliteFile("/gesture", "EnhancedGestureController"), {"pkg:com"})
    [] k = 16 -> EliteWriteAll(st, [i \in 1..Len(EliteTestClasses) |-> EliteUnitTest(i)])
    [] k = 17 -> EliteWrite(st, EliteUiTest, {"pkg:com"})
    [] k = 18 -> EliteWrite(st, Benchmark, {"pkg:com"})
    [] k = 19 -> WriteText(st, Readme, {"long"})
    [] k = 20 -> EliteWrite(st, ApiDoc, {"long"})
    [] k = 21 -> st
    [] k = 22 -> WriteText(st, Proguard, {"long"})
    [] k = 23 -> EliteWrite(st, EliteFile("/analytics", "AnalyticsManager"), {"pkg:com"})
    [] k = 24 -> EliteWrite(st, EliteFile("/crash", "CrashReporter"), {"pkg:com"})
    [] k = 25 -> WriteText(st, EliteReportPath, {"long"})

EliteFaultCandidates == {UserFile(1), Proguard, EliteReportPath}

EliteInit ==
  /\ prog = "elite"
  /\ args \in [valid : BOOLEAN, dry_run : BOOLEAN, skip_backup : BOOLEAN]
  /\ env \in [path_exists : BOOLEAN, backup_ok : BOOLEAN, tick : {0}]
  /\ tree \in InitialTrees
  /\ unwritable \in { f \in SUBSET EliteFaultCandidates : Cardinality(f) <= MaxFaults }
  /\ unreadable = {}
  /\ ~env.path_exists => tree = EmptyTree /\ unwritable = {}
  /\ pc = "main"
  /\ idx = 0
  /\ NoAgentState

\* a faulty main: args.dry_run is not looked at, the upgrade always runs
EliteMainIgnoresDryRun ==
  /\ prog = "elite" /\ pc = "main"
  /\ IF ~args.valid
       THEN pc' = "exited" /\ exit_code' = 2 /\ ending' = "usage"
     ELSE IF ~env.path_exists
       THEN pc' = "exited" /\ exit_code' = 1 /\ ending' = "bad_path"
       ELSE pc' = "backup" /\ UNCHANGED <<exit_code, ending>>
  /\ UNCHANGED <<fixedVars, idx, tree, backups, clock, all_issues, issues_found,
                 modifications_made, all_valid, kotlin_files, modifications_log,
                 fix_calls, validations, analyses, events>>

\* main: parse_args; the test of the project path; the dry run; or the call
\* of run_full_upgrade (whose return is followed by "return 0")
EliteMain ==
  /\ prog = "elite" /\ pc = "main"
  /\ IF ~args.valid
       THEN /\ pc' = "exited" /\ exit_code' = 2 /\ ending' = "usage"
            /\ UNCHANGED <<kotlin_files, events>>
     ELSE IF ~env.path_exists
       THEN /\ pc' = "exited" /\ exit_code' = 1 /\ ending' = "bad_path"
            /\ UNCHANGED <<kotlin_files, events>>
     ELSE IF args.dry_run
       THEN \* agent._analyze_project_structure(); return 0
            /\ kotlin_files' = kotlin_files \o KotlinFiles(tree)
            /\ events' = Append(events, Event("analyze", "elite"))
            /\ pc' = "exited" /\ exit_code' = 0 /\ ending' = "dry_run"
       ELSE /\ pc' = "backup"
            /\ UNCHANGED <<kotlin_files, events, exit_code, ending>>
  /\ UNCHANGED <<fixedVars, idx, tree, backups, clock, all_issues, issues_found,
                 modifications_made, all_valid, modifications_log, fix_calls, validations, analyses>>

\* AstralStreamEliteAgent._create_backup
EliteCreateBackup ==
  /\ prog = "elite" /\ pc = "backup"
  /\ backups' = backups \o CopyTree.made
  /\ events' = Append(events, Event("backup", "-"))
  /\ IF CopyTree.raised
       THEN pc' = "uncaught" /\ UNCHANGED modifications_log
       ELSE /\ pc' = "analysis"
            /\ modifications_log' = Append(modifications_log, LogEntry("Backup created at", "-"))
  /\ UNCHANGED <<fixedVars, idx, tree, clock, all_issues, issues_found, modifications_made,
                 all_valid, kotlin_files, exit_code, fix_calls, validations, analyses, ending>>

\* AstralStreamEliteAgent._analyze_project_structure
EliteAnalyze ==
  /\ prog = "elite" /\ pc = "analysis"
  /\ kotlin_files' = kotlin_files \o KotlinFiles(tree)
  /\ events' = Append(events, Event("analyze", "elite"))
  /\ pc' = "upgrade" /\ idx' = 1
  /\ UNCHANGED <<fixedVars, tree, backups, clock, all_issues, issues_found,
                 modifications_made, all_valid, modifications_log, exit_code, fix_calls,
                 validations, analyses, ending>>

\* one call of phases 2 to 10 of run_full_upgrade; after the last one
\* (_generate_upgrade_report) run_full_upgrade returns and main returns 0
EliteUpgradeStep ==
  /\ prog = "elite" /\ pc = "upgrade"
  /\ LET st == EliteStep(idx, FixStart(tree, modifications_log, clock, 0, unwritable),
                         kotlin_files)
     IN  /\ tree' = st.tree
         /\ modifications_log' = st.mods
         /\ events' = Append(events, Event(IF idx = EliteStepCount THEN "report" ELSE "upgrade", "elite"))
         /\ IF st.raised
              THEN pc' = "uncaught" /\ UNCHANGED <<idx, exit_code, ending>>
            ELSE IF idx = EliteStepCount
              THEN pc' = "exited" /\ exit_code' = 0 /\ ending' = "returned" /\ idx' = idx
              ELSE pc' = pc /\ idx' = idx + 1 /\ UNCHANGED <<exit_code, ending>>
  /\ UNCHANGED <<fixedVars, backups, clock, all_issues, issues_found, modifications_made,
                 all_valid, kotlin_files, fix_calls, validations, analyses>>

(***************************************************************************)
(* The two scripts.                                                        *)
(***************************************************************************)
Init == TeamInit \/ EliteInit

Next ==
  \/ TeamMain
  \/ TeamCreateBackup
  \/ TeamAnalyze
  \/ TeamFix
  \/ TeamSkipFix
  \/ TeamValidate
  \/ TeamReport
  \/ UncaughtException
  \/ EliteMain
  \/ EliteCreateBackup
  \/ EliteAnalyze
  \/ EliteUpgradeStep

Spec == Init /\ [][Next]_vars

(***************************************************************************)
(* One agent driven directly: analyze, fix and validate called in any      *)
(* order on the agent Agents[idx], as a test of the agent would.           *)
(***************************************************************************)
\* the projects and the failing paths an agent is tried on
AgentTrees ==
  { MakeTree(parts, users) : parts \in {{}, Parts},
                             users \in {<<>>} \cup [ {UserFile(1)} -> UserTexts ] }

AgentFaultSets == {{}, {TestRoot}, {UserFile(1)}, {Proguard}}

AgentInit ==
  /\ prog = "agent"
  /\ args = [valid |-> TRUE, dry_run |-> FALSE, skip_backup |-> FALSE]
  /\ env \in [path_exists : {TRUE}, backup_ok : {TRUE}, tick : {MaxTick}]
  /\ tree \in AgentTrees
  /\ unwritable \in AgentFaultSets
  /\ unreadable \in SUBSET ReadFaultCandidates
  /\ unreadable # {} => unwritable = {}
  /\ \A p \in unreadable : IsFile(tree, p)
  /\ pc = "agent"
  /\ idx \in 1..Len(Agents)
  /\ NoAgentState

CallsMade == Len(events)

\* issues = agent.analyze()["issues"]
AgentCallAnalyze ==
  /\ prog = "agent" /\ pc = "agent" /\ CallsMade < MaxCalls
  /\ LET a == Agents[idx]
         issues == AgentAnalyzeCall(a, tree, issues_found[a])
     IN  IF AnalyzeRaises(a, tree, unreadable)
           THEN /\ events' = Append(events, Event("analyze_failed", a))
                /\ pc' = "raised"
                /\ UNCHANGED <<issues_found, analyses>>
           ELSE /\ issues_found' = [issues_found EXCEPT ![a] = issues]
                /\ analyses' = Append(analyses, AnalyzeCall(a, issues))
                /\ events' = Append(events, Event("analyze", a))
                /\ pc' = pc
  /\ UNCHANGED <<fixedVars, idx, tree, backups, clock, all_issues, modifications_made,
                 all_valid, kotlin_files, modifications_log, exit_code, fix_calls,
                 validations, ending>>

\* a list a caller builds by hand: a test directory to create at a path of
\* the caller's choice, and an issue of a type no agent knows
CraftedIssues ==
  <<FileIssue("missing_test_directory", "high", OutsideDir), Issue("unknown_kind", "low")>>

\* the issue lists a caller passes to fix: what the last analyze returned,
\* one of its issues alone (the first issue of each type), or a list built
\* by hand
FixInputs(a) ==
  LET found == issues_found[a]
  IN  {found, CraftedIssues}
      \cup { <<found[i]>> : i \in { k \in DOMAIN found :
                                      \A j \in 1..(k - 1) : found[j].type # found[k].type } }

\* agent.fix(issues); an exception leaves the call and ends the test
AgentCallFix ==
  /\ prog = "agent" /\ pc = "agent" /\ CallsMade < MaxCalls
  /\ \E issues \in FixInputs(Agents[idx]) :
       LET a == Agents[idx]
           st == AgentFix(a, FixStart(tree, modifications_made[a], clock, env.tick,
                                      unwritable), issues)
       IN  /\ tree' = st.tree
           /\ modifications_made' = [modifications_made EXCEPT ![a] = st.mods]
           /\ clock' = st.clock
           /\ fix_calls' = Append(fix_calls, FixCall(a, issues, st))
           /\ events' = Append(events, Event("fix", a))
           /\ pc' = IF st.raised THEN "raised" ELSE pc
  /\ UNCHANGED <<fixedVars, idx, backups, all_issues, issues_found, all_valid,
                 kotlin_files, modifications_log, exit_code, validations, analyses, ending>>

\* agent.validate()
AgentCallValidate ==
  /\ prog = "agent" /\ pc = "agent" /\ CallsMade < MaxCalls
  /\ LET a == Agents[idx]
         valid == AgentValidateCall(a, tree, issues_found[a], modifications_made[a])
     IN  validations' = Append(validations, ValidateCall(a, valid))
  /\ events' = Append(events, Event("validate", Agents[idx]))
  /\ UNCHANGED <<fixedVars, pc, idx, tree, backups, clock, all_issues, issues_found,
                 modifications_made, all_valid, kotlin_files, modifications_log, exit_code,
                 fix_calls, analyses, ending>>

AgentNext ==
  \/ AgentCallAnalyze
  \/ AgentCallFix
  \/ AgentCallValidate

SpecAgent == AgentInit /\ [][AgentNext]_vars

(***************************************************************************)
(* Properties of the runs.                                                 *)
(***************************************************************************)
\* positions of the calls of kind op in the history of the run
EventsOf(op) == { j \in DOMAIN events : events[j].op = op }

\* C1 - Phase barrier: in every run of MasterOrchestrator.run_full_upgrade
\* a fix starts only after every agent of the roster has completed analyze,
\* and a validate starts only after the fix phase is over for every agent:
\* each agent with issues has had its fix, and no fix follows a validate.
C1_PhaseBarrier ==
  prog = "team" =>
    /\ \A j \in EventsOf("fix") :
         \A a \in AgentNames : \E i \in 1..(j - 1) : events[i] = Event("analyze", a)
    /\ \A j \in EventsOf("validate") :
         /\ \A a \in AgentNames :
              all_issues[a] # <<>> => \E i \in 1..(j - 1) : events[i] = Event("fix", a)
         /\ \A k \in EventsOf("fix") : k < j

\* a run in which several agents fixed and the validation has begun
C1_Witness ==
  /\ prog = "team"
  /\ Cardinality(EventsOf("fix")) >= 2
  /\ EventsOf("validate") # {}

\* C2 - When run_full_upgrade returns, the value it returns (all_valid, from
\* which main derives the exit status) is the conjunction of the results of
\* validate of all the agents of the roster, one result per agent.
C2_SuccessIsConjunction ==
  (prog = "team" /\ ending = "returned") =>
    /\ Len(validations) = Len(Agents)
    /\ \A i \in DOMAIN validations : validations[i].agent = Agents[i]
    /\ all_valid <=> (\A i \in DOMAIN validations : validations[i].valid)
    /\ exit_code = 0 <=> all_valid

\* a run that returned failure although the last agent validated
C2_Witness ==
  /\ prog = "team" /\ ending = "returned"
  /\ ~all_valid
  /\ validations[Len(validations)].valid

\* the backup comes first and once: while it is not made the tree is as the
\* script found it; any other call follows one backup call, which completed
\* and copied the tree as it was found
SnapshotFirst ==
  /\ (pc \in {"main", "backup"} => tree = initial_tree)
  /\ Cardinality(EventsOf("backup")) <= 1
  /\ events # <<>> => events[1].op = "backup"
  /\ Len(events) > 1 =>
       backups = <<[complete |-> TRUE, content |-> initial_tree]>>

DryRun == prog = "elite" /\ args.dry_run

\* C3 as written - in every run of either script the backup is taken once,
\* completes before any analysis, fix, validation or upgrade step begins,
\* and no write to the tree precedes it
C3_SnapshotOnceBeforeAgents ==
  prog \in {"team", "elite"} => SnapshotFirst

\* C3 - In every run of run_full_upgrade (of either script) the backup is
\* taken once, completes before any analysis, fix, validation or upgrade
\* step begins, and no write to the tree precedes it; a --dry-run run calls
\* the analysis alone and takes no backup.
C3_SnapshotInFullUpgrade ==
  /\ (prog \in {"team", "elite"} /\ ~DryRun) => SnapshotFirst
  /\ DryRun => backups = <<>> /\ EventsOf("backup") = {}

\* a team run and an elite run past the backup, with the tree already changed
C3_Witness ==
  /\ ~DryRun
  /\ Len(backups) = 1 /\ backups[1].complete
  /\ tree # initial_tree
  /\ \E j \in DOMAIN events : events[j].op \in {"fix", "upgrade"}

\* C4 - When an error that fix does not handle occurs during the fix phase,
\* the run ends rolled back: restore is called and the tree afterwards
\* equals the backup, also when other agents had completed their fix.
C4_RollbackOnFixFailure ==
  (prog = "team" /\ pc = "exited" /\ fix_calls # <<>>
     /\ fix_calls[Len(fix_calls)].raised) =>
    /\ EventsOf("restore") # {}
    /\ tree = initial_tree
    /\ exit_code = 2

RECURSIVE SumFixed(_)
SumFixed(calls) ==
  IF calls = <<>> THEN 0 ELSE Head(calls).fixed + SumFixed(Tail(calls))

RECURSIVE LedgerCount(_)
LedgerCount(agents) ==
  IF agents = <<>> THEN 0
  ELSE Len(modifications_made[Head(agents)]) + LedgerCount(Tail(agents))

\* C5 - Ledger-count equality: after a full run the number of recorded
\* modifications, summed over the agents, equals the sum of the "fixed"
\* values the fix calls returned.
C5_LedgerCountEquality ==
  (prog = "team" /\ ending = "returned") =>
    LedgerCount(Agents) = SumFixed(fix_calls)

\* C6 - Idempotence of fix: when fix([i]) is called twice in sequence, the
\* second call leaves the tree as it is and appends no modification.
C6_FixIdempotent ==
  \A k \in 1..(Len(fix_calls) - 1) :
    (/\ Len(fix_calls[k].issues) = 1
     /\ fix_calls[k + 1].issues = fix_calls[k].issues
     /\ fix_calls[k + 1].at = fix_calls[k].at + 1
     /\ ~fix_calls[k].raised) =>
      /\ ~fix_calls[k + 1].raised
      /\ ~fix_calls[k + 1].changed
      /\ fix_calls[k + 1].recorded = 0

\* C7 - Dry-run purity: a run with --dry-run calls the analysis alone: it
\* never gets to the backup, to an upgrade step, to a fix or to a
\* validation, logs no modification, and leaves the tree unchanged.
C7_DryRunPurity ==
  DryRun =>
    /\ tree = initial_tree
    /\ modifications_log = <<>>
    /\ \A a \in AgentNames : modifications_made[a] = <<>>
    /\ backups = <<>>
    /\ pc \in {"main", "exited"}
    /\ \A j \in DOMAIN events : events[j] = Event("analyze", "elite")
    /\ Len(events) <= 1

\* a dry run that ended after cataloguing the Kotlin files of the project
C7_Witness ==
  /\ DryRun /\ ending = "dry_run"
  /\ events = <<Event("analyze", "elite")>>
  /\ kotlin_files # <<>>

\* how a run ended
Done == ending \in {"returned", "dry_run"}

ConfigError == ending \in {"usage", "bad_path"}

RolledBack == ending = "exception" /\ EventsOf("restore") # {} /\ tree = initial_tree

AllValidated == \A i \in DOMAIN validations : validations[i].valid

\* C8 - Every run ends with one of the outcomes success, validation
\* failure, rollback, configuration error, each with its own exit status:
\* 0 only when done with every agent validated, 1 only when done with an
\* agent failing validation, 2 only when rolled back, 3 for a configuration
\* or argument error; an aborted run shares neither 0 nor 1.
C8_ExitCodes ==
  pc = "exited" =>
    /\ exit_code \in 0..3
    /\ exit_code = 0 => Done /\ AllValidated
    /\ exit_code = 1 => Done /\ ~AllValidated
    /\ exit_code = 2 => RolledBack
    /\ exit_code = 3 <=> ConfigError

\* C9 - Local error isolation: an error raised while one issue is fixed is
\* caught and the issue recorded as skipped; the fix call does not abort
\* and goes through all the issues of its list.
C9_LocalErrorIsolation ==
  \A k \in DOMAIN fix_calls :
    Len(fix_calls[k].seen) = fix_calls[k].total

\* C10 - A write that fails while an issue is fixed is not fatal for the
\* agent and shows in the result as fixed < total: the issue of a failed
\* write is never counted as fixed.
C10_FailedWriteNotCounted ==
  \A k \in DOMAIN fix_calls :
    /\ \A i \in DOMAIN fix_calls[k].seen : fix_calls[k].seen[i] # "swallowed"
    /\ fix_calls[k].swallowed > 0 => fix_calls[k].fixed < fix_calls[k].total

\* C11 - Agent-failure isolation: when the analyze of one agent cannot
\* complete, the agent is marked failed and the other agents still run
\* analyze, fix and validate; the run ends done, with a report.
C11_AgentFailureIsolation ==
  (prog = "team" /\ pc = "exited" /\ EventsOf("analyze_failed") # {}) =>
    /\ ending = "returned"
    /\ EventsOf("report") # {}
    /\ \A a \in AgentNames :
         (\A j \in EventsOf("analyze_failed") : events[j].agent # a) =>
           /\ \E j \in DOMAIN events : events[j] = Event("analyze", a)
           /\ \E j \in DOMAIN events : events[j] = Event("validate", a)

\* the copy of the backup was attempted and did not complete
SnapshotFailed ==
  /\ EventsOf("backup") # {}
  /\ backups = <<>> \/ ~backups[Len(backups)].complete

\* the calls that do the work of a run: all but the backup
WorkOps == {"analyze", "analyze_failed", "fix", "validate", "upgrade", "report"}

NothingDone ==
  /\ tree = initial_tree
  /\ \A j \in DOMAIN events : events[j].op \notin WorkOps
  /\ modifications_log = <<>>
  /\ \A a \in AgentNames : modifications_made[a] = <<>>

C13_NoPartialBackup ==
  pc = "exited" => \A i \in DOMAIN backups : backups[i].complete

\* C14 - A run started with --skip-backup makes no backup copy of the tree.
C14_SkipBackup ==
  (prog = "elite" /\ args.skip_backup) =>
    backups = <<>> /\ EventsOf("backup") = {}

\* the command line is bad, or names a project path that does not exist
ConfigRejected == ~args.valid \/ ~env.path_exists

TreeChangedBetween(j, k) ==
  \E f \in DOMAIN fix_calls :
    fix_calls[f].changed /\ j < fix_calls[f].at /\ fix_calls[f].at < k

Called(ops) ==
  /\ Len(events') = Len(events) + 1
  /\ events'[Len(events')].op \in ops

LedgerUnchanged ==
  /\ modifications_made' = modifications_made
  /\ modifications_log' = modifications_log

IsPrefix(s, t) == Len(s) <= Len(t) /\ \A i \in DOMAIN s : s[i] = t[i]

\* C19 - The ledger is append-only: whatever operations are called on an
\* agent, in whatever order, after every one of them each list of
\* modifications has its former value as a prefix.
C19_LedgerAppendOnly ==
  [][/\ \A a \in AgentNames : IsPrefix(modifications_made[a], modifications_made'[a])
     /\ IsPrefix(modifications_log, modifications_log')]_vars

\* fix was called on an agent whose ledger already had entries, and
\* recorded further ones
C19_Witness ==
  \E k \in 2..Len(fix_calls) :
    /\ fix_calls[k - 1].agent = fix_calls[k].agent
    /\ fix_calls[k - 1].recorded >= 2
    /\ fix_calls[k].recorded >= 2

\* C20 - The timestamps of the ledger entries are strictly increasing over
\* the whole run: no two entries, of one agent or of two, have equal
\* timestamps, and within a list none is earlier than one before it.
C20_TimestampsStrictlyIncreasing ==
  \A a, b \in AgentNames :
    \A i \in DOMAIN modifications_made[a], j \in DOMAIN modifications_made[b] :
      /\ (a = b /\ i < j) =>
           modifications_made[a][i].timestamp < modifications_made[b][j].timestamp
      /\ (a # b \/ i # j) =>
           modifications_made[a][i].timestamp # modifications_made[b][j].timestamp

\* C21 - Every issue counted as fixed emits exactly one modification and
\* nothing else in the fix call appends one: a fix call that returns has
\* appended as many ledger entries as the "fixed" it reports.
C21_OneModificationPerFix ==
  \A k \in DOMAIN fix_calls :
    ~fix_calls[k].raised => fix_calls[k].recorded = fix_calls[k].fixed


\* the target of a modification, or a path, lies under the project root
UnderRoot(p) == p \in ProjectPaths

\* nothing outside the project root was created, written or removed
OutsideUntouched == \A p \in Paths \ ProjectPaths : tree[p] = initial_tree[p]

\* C22 - No agent writes outside the project root: whatever issue list fix
\* is given, nothing exists outside the root that was not there before, and
\* every target recorded in a modification lies under the root.
C22_WritesUnderRoot ==
  /\ OutsideUntouched
  /\ \A a \in AgentNames : \A i \in DOMAIN modifications_made[a] :
        UnderRoot(modifications_made[a][i].file)

\* the agents whose ledger the step changes
LedgerWriters == { a \in AgentNames : modifications_made'[a] # modifications_made[a] }

\* the targets an agent has recorded
Targets(a) == { modifications_made[a][i].file : i \in DOMAIN modifications_made[a] }

\* C23 - Mutual exclusion on target paths: the fix calls are serialized, so
\* no two agents are inside fix at once. In every step at most one agent
\* records modifications, that step is the fix call of this agent, and in
\* the fixing phase the tree is written by such a step alone.
C23_FixMutualExclusion ==
  [][/\ Cardinality(LedgerWriters) <= 1
     /\ \A a \in LedgerWriters :
          /\ Len(fix_calls') = Len(fix_calls) + 1
          /\ fix_calls'[Len(fix_calls')].agent = a
     /\ (pc = "fixing" /\ tree' # tree) => Len(fix_calls') = Len(fix_calls) + 1]_vars

\* two agents of one run have written the same path, one after the other
C23_Witness ==
  /\ prog = "team"
  /\ \E a, b \in AgentNames :
       /\ a # b
       /\ Targets(a) \cap Targets(b) \cap ProjectPaths # {}

\* the fix call k handled, with no error, every issue the analyze of its
\* agent had returned
FixedAll(k) ==
  /\ ~fix_calls[k].raised
  /\ fix_calls[k].swallowed = 0
  /\ fix_calls[k].issues = issues_found[fix_calls[k].agent]
  /\ fix_calls[k].fixed = fix_calls[k].total

\* C24 - Fix establishes validation: when the fix of an agent has handled
\* all the issues its analyze returned, the validate of the agent that
\* follows returns true; a run in which all agents validate exits with 0.
C24_FixEstablishesValidation ==
  /\ \A k \in DOMAIN fix_calls : \A v \in DOMAIN validations :
        (/\ FixedAll(k)
         /\ validations[v].agent = fix_calls[k].agent
         /\ validations[v].at > fix_calls[k].at) => validations[v].valid
  /\ (prog = "team" /\ ending = "returned" /\ AllValidated) => exit_code = 0

\* the name of the path marks a machine-readable (JSON) file
IsStructured(p) == Len(p) > 5 /\ SubSeq(p, Len(p) - 4, Len(p)) = ".json"

\* the markdown report of the script that runs
ReportPath == IF prog = "elite" THEN EliteReportPath ELSE TeamReportPath

\* C25 - After every invocation without --dry-run that completes, the
\* markdown report and a structured result file both exist under the
\* project root.
C25_ReportAndStructuredResult ==
  (prog \in {"team", "elite"} /\ ending = "returned" /\ ~args.dry_run /\ env.path_exists) =>
    /\ IsFile(tree, ReportPath)
    /\ \E p \in ProjectPaths : IsFile(tree, p) /\ IsStructured(p)

\* the issues the analyze of agent a returned in this run
Analysed(a) == { analyses[i].issues : i \in { j \in DOMAIN analyses : analyses[j].agent = a } }

\* the modifications the fix calls of agent a recorded in this run
RecordedBy(a) ==
  LET ks == { k \in DOMAIN fix_calls : fix_calls[k].agent = a }
  IN  IF ks = {} THEN 0 ELSE fix_calls[CHOOSE k \in ks : TRUE].recorded

\* C26 - Agent identity is preserved: the list passed to the fix of an agent
\* is the list the analyze of that agent returned, and when the report is
\* written the counts it gives for an agent are those of the issues this
\* agent found and of the modifications this agent recorded.
C26_AgentIdentityPreserved ==
  prog = "team" =>
    /\ \A k \in DOMAIN fix_calls : Analysed(fix_calls[k].agent) = {fix_calls[k].issues}
    /\ pc \in {"report", "exited"} /\ Len(validations) = Len(Agents) =>
          \A a \in AgentNames :
            /\ Analysed(a) = { s \in Analysed(a) : Len(s) = AgentReports[a].issues_found }
            /\ AgentReports[a].modifications_made = RecordedBy(a)

\* the report of a run in which two agents were handed different issue
\* lists and recorded different numbers of modifications
C26_Witness ==
  /\ prog = "team" /\ ending = "returned"
  /\ \E j, k \in DOMAIN fix_calls :
       /\ fix_calls[j].issues # fix_calls[k].issues
       /\ Len(fix_calls[j].issues) # Len(fix_calls[k].issues)
       /\ fix_calls[j].recorded # fix_calls[k].recorded

\* the analyze of agent a returned no issue
FoundNothing(a) == Analysed(a) = {<<>>}

\* C27 - Fix is invoked only on an agent whose analyze returned at least
\* one issue: an agent that found nothing is never inside fix, so it writes
\* nothing and its ledger stays empty for the whole run.
C27_NoIssuesNoFix ==
  prog = "team" =>
    /\ \A k \in DOMAIN fix_calls : fix_calls[k].issues # <<>>
    /\ \A a \in AgentNames :
          FoundNothing(a) =>
            /\ modifications_made[a] = <<>>
            /\ \A k \in DOMAIN fix_calls : fix_calls[k].agent # a

\* a finished run in which the fixing phase passed over an agent that had
\* found nothing, and fixed for an agent after it
C27_Witness ==
  /\ prog = "team" /\ ending = "returned"
  /\ \E i \in DOMAIN Agents : \E k \in DOMAIN fix_calls :
       /\ FoundNothing(Agents[i])
       /\ \E j \in (i + 1)..Len(Agents) : fix_calls[k].agent = Agents[j]

\* C28 - Validation does not short-circuit: the validate calls made so far
\* are those of the first agents of the roster, one each, in roster order;
\* the validation phase is left only when every agent has been validated;
\* and once an agent has returned false the overall result is false.
C28_ValidationNoShortCircuit ==
  prog = "team" =>
    /\ Len(validations) <= Len(Agents)
    /\ \A i \in DOMAIN validations : validations[i].agent = Agents[i]
    /\ (pc = "report" \/ ending = "returned") => Len(validations) = Len(Agents)
    /\ (\E i \in DOMAIN validations : ~validations[i].valid) => ~all_valid

\* a finished run in which the first agent failed its validation and an
\* agent after it passed
C28_Witness ==
  /\ prog = "team" /\ ending = "returned"
  /\ ~validations[1].valid
  /\ \E i \in 2..Len(validations) : validations[i].valid

\* the positions of the issues of a list whose type the agent dispatches on
Dispatched(a, issues) == { i \in DOMAIN issues : issues[i].type \in FixKinds(a) }

\* C29 - Fix-outcome bounds: a fix call that returns reports as total the
\* length of its list and as fixed the number of issues of the list whose
\* type the agent dispatches on, so 0 <= fixed <= total; an issue of
\* another type is left unhandled.
C29_FixOutcomeBounds ==
  \A k \in DOMAIN fix_calls :
    LET c == fix_calls[k]
    IN  ~c.raised =>
          /\ c.total = Len(c.issues)
          /\ 0 <= c.fixed /\ c.fixed <= c.total
          /\ c.fixed = Cardinality(Dispatched(c.agent, c.issues))
          /\ Len(c.seen) = c.total
          /\ \A i \in DOMAIN c.issues :
                (c.seen[i] = "unhandled") <=> (i \notin Dispatched(c.agent, c.issues))

\* a fix call returned for a list that holds an issue the agent dispatches
\* on and an issue it does not
C29_Witness ==
  \E k \in DOMAIN fix_calls :
    /\ ~fix_calls[k].raised
    /\ 0 < fix_calls[k].fixed
    /\ fix_calls[k].fixed < fix_calls[k].total
    /\ \E i \in DOMAIN fix_calls[k].seen : fix_calls[k].seen[i] = "unhandled"

\* C30 - The final report is written at most once per run and only after
\* the validate of every agent has returned; a run that is aborted in the
\* backup, the analysis, the fixing or the validation writes no report.
C30_ReportOnceAtEnd ==
  prog = "team" =>
    /\ Cardinality(EventsOf("report")) <= 1
    /\ \A r \in EventsOf("report") :
          /\ Len(validations) = Len(Agents)
          /\ \A v \in DOMAIN validations : validations[v].at < r
    /\ EventsOf("report") = {} => tree[TeamReportPath] = initial_tree[TeamReportPath]

\* a run was aborted by a fix that raised, after other fixes had written
C30_Witness ==
  /\ prog = "team" /\ ending = "exception"
  /\ Len(fix_calls) >= 2
  /\ fix_calls[Len(fix_calls)].raised
  /\ ~Exists(tree, TeamReportPath)


==============================================================================
